---- MODULE Spec2Model ----
(***************************************************************************)
(* A model of sf2-contents.py: the SoundFont2 container reader             *)
(* (parse_file, parse_info_list_chunk, parse_chunk), the record array      *)
(* decoder (ChunkParser and the six record classes) and the hierarchy      *)
(* resolver (process, next_bag, next_gen), followed by the report stage of *)
(* main.                                                                   *)
(*                                                                         *)
(* Bytes are naturals 0..255 and byte strings are sequences of them.  A    *)
(* Python str is the sequence of its code points.  Python's None is the    *)
(* value None.  A call that raises is modelled by a result record with     *)
(* ok = FALSE and the name of the exception.                               *)
(***************************************************************************)
EXTENDS Integers, Sequences, FiniteSets, TLC

VARIABLES
    pc,         \* position of the program (see the actions)
    file,       \* the input file of parse_file
    info,       \* the metadata list of parse_info_list_chunk, or None
    arrays,     \* the nine ChunkParser.records lists, by chunk name
    nchunk,     \* number of record array chunks parse_file has decoded
    banks,      \* the dict of process: items in insertion order
    k,          \* index of the preset header the loop of process is at
    saved,      \* the nine record lists as they were when process was called
    reports,    \* the report files written by main
    fpos,       \* the position of the file object f of parse_file
    err,        \* the exception or exit that ended the run, or None
    cls,        \* ChunkParser.rec_class of a stand-alone ChunkParser
    data,       \* the data argument of ChunkParser.parse
    size,       \* the size argument of ChunkParser.parse
    records     \* ChunkParser.records of the stand-alone ChunkParser

vars == <<pc, file, fpos, info, arrays, nchunk, banks, k, saved, reports, err,
          cls, data, size, records>>

None == "None"

\* the values of info: None, or a list of (label, value) pairs
InfoNone == [none |-> TRUE, list |-> <<>>]
InfoList(l) == [none |-> FALSE, list |-> l]

(***************************************************************************)
(* Bounds of the model.                                                    *)
(***************************************************************************)
\* records in a stand-alone record array, the sentinel not counted
MaxRecs == 2
\* bytes that follow the last whole record of a stand-alone record array
MaxTail == 1

(***************************************************************************)
(* Sequence helpers.                                                       *)
(***************************************************************************)
RECURSIVE Flatten(_)
Flatten(ss) == IF ss = <<>> THEN <<>> ELSE Head(ss) \o Flatten(Tail(ss))

RECURSIVE SumSeq(_)
SumSeq(s) == IF s = <<>> THEN 0 ELSE Head(s) + SumSeq(Tail(s))

\* Python's data[a:b] for 0 <= a, on a 1-based sequence: elements a+1 .. b,
\* cut at the end of the sequence
Slice(s, a, b) ==
    LET hi == IF b < Len(s) THEN b ELSE Len(s)
    IN  IF a >= hi THEN <<>> ELSE SubSeq(s, a + 1, hi)

Zeros(n) == [i \in 1..n |-> 0]

Pow256(n) == 256 ^ n

(***************************************************************************)
(* struct: the record formats, all little-endian without alignment ("<").  *)
(* A format is the sequence of its fields; a field is its code and, for    *)
(* "s", its byte count.                                                    *)
(***************************************************************************)
F(code) == [code |-> code, n |-> 1]
S(n) == [code |-> "s", n |-> n]

RecordClasses == {"PHDRRecord", "XBAGRecord", "XMODRecord", "XGENRecord",
                  "INSTRecord", "SHDRRecord"}

Format(c) ==
    CASE c = "PHDRRecord" -> <<S(20), F("H"), F("H"), F("H"), F("I"), F("I"), F("I")>>
      [] c = "XBAGRecord" -> <<F("H"), F("H")>>
      [] c = "XMODRecord" -> <<F("H"), F("H"), F("H"), F("H"), F("H")>>
      [] c = "XGENRecord" -> <<F("H"), F("H")>>
      [] c = "INSTRecord" -> <<S(20), F("H")>>
      [] c = "SHDRRecord" -> <<S(20), F("I"), F("I"), F("I"), F("I"), F("I"),
                               F("B"), F("b"), F("H"), F("H")>>

FieldWidth(f) ==
    CASE f.code = "s" -> f.n
      [] f.code = "H" -> 2
      [] f.code = "I" -> 4
      [] f.code = "B" -> 1
      [] f.code = "b" -> 1

\* struct.calcsize(format)
CalcSize(fmt) == SumSeq([i \in 1..Len(fmt) |-> FieldWidth(fmt[i])])

\* byte offset of field i in a packed record
FieldOffset(fmt, i) == SumSeq([j \in 1..(i - 1) |-> FieldWidth(fmt[j])])

RECURSIVE FromLE(_)
FromLE(bs) == IF bs = <<>> THEN 0 ELSE Head(bs) + 256 * FromLE(Tail(bs))

ToLE(v, w) == [i \in 1..w |-> (v \div Pow256(i - 1)) % 256]

\* the value struct.unpack gives for one field
UnpackField(f, bs) ==
    CASE f.code = "s" -> bs
      [] f.code = "b" -> IF bs[1] >= 128 THEN bs[1] - 256 ELSE bs[1]
      [] OTHER -> FromLE(bs)

\* struct.unpack(format, buf) for a buffer of exactly calcsize(format) bytes
Unpack(fmt, buf) ==
    [i \in 1..Len(fmt) |->
        UnpackField(fmt[i],
                    SubSeq(buf, FieldOffset(fmt, i) + 1,
                           FieldOffset(fmt, i) + FieldWidth(fmt[i])))]

(***************************************************************************)
(* bytes.decode("utf-8") and str.strip(chr(0)).                            *)
(***************************************************************************)
IsCont(b) == b >= 128 /\ b <= 191

\* number of bytes of the UTF-8 sequence that starts bs, 0 if bs starts with
\* no well-formed sequence (strict decoding raises UnicodeDecodeError)
Utf8Len(bs) ==
    LET b1 == bs[1]
        c(i) == Len(bs) >= i /\ IsCont(bs[i])
    IN  CASE b1 < 128 -> 1
          [] b1 >= 194 /\ b1 <= 223 -> IF c(2) THEN 2 ELSE 0
          [] b1 = 224 -> IF c(2) /\ c(3) /\ bs[2] >= 160 THEN 3 ELSE 0
          [] b1 = 237 -> IF c(2) /\ c(3) /\ bs[2] <= 159 THEN 3 ELSE 0
          [] b1 >= 225 /\ b1 <= 239 /\ b1 # 237 -> IF c(2) /\ c(3) THEN 3 ELSE 0
          [] b1 = 240 -> IF c(2) /\ c(3) /\ c(4) /\ bs[2] >= 144 THEN 4 ELSE 0
          [] b1 >= 241 /\ b1 <= 243 -> IF c(2) /\ c(3) /\ c(4) THEN 4 ELSE 0
          [] b1 = 244 -> IF c(2) /\ c(3) /\ c(4) /\ bs[2] <= 143 THEN 4 ELSE 0
          [] OTHER -> 0

Utf8Point(bs, n) ==
    CASE n = 1 -> bs[1]
      [] n = 2 -> (bs[1] - 192) * 64 + (bs[2] - 128)
      [] n = 3 -> (bs[1] - 224) * 4096 + (bs[2] - 128) * 64 + (bs[3] - 128)
      [] n = 4 -> (bs[1] - 240) * 262144 + (bs[2] - 128) * 4096
                  + (bs[3] - 128) * 64 + (bs[4] - 128)

RECURSIVE Utf8Valid(_)
Utf8Valid(bs) ==
    IF bs = <<>> THEN TRUE
    ELSE LET n == Utf8Len(bs)
         IN  n > 0 /\ Utf8Valid(SubSeq(bs, n + 1, Len(bs)))

\* the code points of a well-formed byte string
RECURSIVE Utf8Decode(_)
Utf8Decode(bs) ==
    IF bs = <<>> THEN <<>>
    ELSE LET n == Utf8Len(bs)
         IN  <<Utf8Point(bs, n)>> \o Utf8Decode(SubSeq(bs, n + 1, Len(bs)))

RECURSIVE LStrip(_)
LStrip(s) == IF s # <<>> /\ Head(s) = 0 THEN LStrip(Tail(s)) ELSE s

RECURSIVE RStrip(_)
RStrip(s) ==
    IF s # <<>> /\ s[Len(s)] = 0 THEN RStrip(SubSeq(s, 1, Len(s) - 1)) ELSE s

\* a strip of the trailing NULs alone
StripTrailing(s) == RStrip(s)

\* s.strip(chr(0)): NULs are removed from both ends
Strip(s) == RStrip(LStrip(s))

\* name.decode("utf-8").strip(chr(0))
DecodeName(bs) == Strip(Utf8Decode(bs))

(***************************************************************************)
(* The record classes.  rec_class builds the record from the unpacked       *)
(* fields; the classes                                                     *)
(* with a name decode and strip it in __init__, and PHDRRecord.__init__    *)
(* drops its last three arguments, so that library, genre and morphology   *)
(* keep the class defaults.                                                *)
(***************************************************************************)
HasName(c) == c \in {"PHDRRecord", "INSTRecord", "SHDRRecord"}

PHDRRecord(f) ==
    [preset_name |-> DecodeName(f[1]), preset |-> f[2], bank |-> f[3],
     bag_ndx |-> f[4], library |-> 0, genre |-> 0, morphology |-> 0]

XBAGRecord(f) == [gen_ndx |-> f[1], mod_ndx |-> f[2]]

XMODRecord(f) ==
    [mod_src_oper |-> f[1], mod_dest_oper |-> f[2], mod_amount |-> f[3],
     mod_arm_src_oper |-> f[4], mod_trans_oper |-> f[5]]

XGENRecord(f) == [gen_oper |-> f[1], gen_amount |-> f[2]]

INSTRecord(f) == [inst_name |-> DecodeName(f[1]), inst_bag_ndx |-> f[2]]

SHDRRecord(f) ==
    [sample_name |-> DecodeName(f[1]), start |-> f[2], end |-> f[3],
     start_loop |-> f[4], end_loop |-> f[5], sample_rate |-> f[6],
     original_pitch |-> f[7], pitch_correction |-> f[8],
     sample_link |-> f[9], sample_type |-> f[10]]

MakeRecord(c, f) ==
    CASE c = "PHDRRecord" -> PHDRRecord(f)
      [] c = "XBAGRecord" -> XBAGRecord(f)
      [] c = "XMODRecord" -> XMODRecord(f)
      [] c = "XGENRecord" -> XGENRecord(f)
      [] c = "INSTRecord" -> INSTRecord(f)
      [] c = "SHDRRecord" -> SHDRRecord(f)

(***************************************************************************)
(* ChunkParser.                                                            *)
(***************************************************************************)
\* ChunkParser.rec_size
RecSize(c) == CalcSize(Format(c))

\* ChunkParser._parse_record: struct.unpack raises struct.error on a slice
\* shorter than the record, the constructor raises UnicodeDecodeError on a
\* name that is not UTF-8
ParseRecord(c, d, cp) ==
    LET buf == Slice(d, cp, cp + RecSize(c))
    IN  IF Len(buf) # RecSize(c)
        THEN [ok |-> FALSE, error |-> "struct.error"]
        ELSE LET f == Unpack(Format(c), buf)
             IN  IF HasName(c) /\ ~Utf8Valid(f[1])
                 THEN [ok |-> FALSE, error |-> "UnicodeDecodeError"]
                 ELSE [ok |-> TRUE, rec |-> MakeRecord(c, f)]

\* the count with the terminal record in it
TotalRecsKeepLast(c, sz) == sz \div RecSize(c)

\* total_recs = int(size / self.rec_size) - 1
TotalRecs(c, sz) == (sz \div RecSize(c)) - 1

\* the loop of ChunkParser.parse with n iterations left, at byte cp, after
\* acc was appended to self.records
RECURSIVE ParseLoop(_, _, _, _, _)
ParseLoop(c, d, n, cp, acc) ==
    IF n <= 0 THEN [ok |-> TRUE, records |-> acc, error |-> None]
    ELSE LET r == ParseRecord(c, d, cp)
         IN  IF ~r.ok THEN [ok |-> FALSE, records |-> acc, error |-> r.error]
             ELSE ParseLoop(c, d, n - 1, cp + RecSize(c), Append(acc, r.rec))

\* ChunkParser.parse(data, size) on a parser whose records list holds recs
Parse(c, d, sz, recs) == ParseLoop(c, d, TotalRecs(c, sz), 0, recs)

(***************************************************************************)
(* The encoder that is the inverse of the layouts: struct.pack(format,     *)
(* ...) of a record's attributes in the order of the format, a str encoded *)
(* as UTF-8 and NUL-padded (or cut) to the width of its field.  The        *)
(* program has no encoder; this one builds input files and is the          *)
(* re-encoding of the round trip.                                          *)
(***************************************************************************)
Utf8EncodePoint(p) ==
    IF p < 128 THEN <<p>>
    ELSE IF p < 2048 THEN <<192 + (p \div 64), 128 + (p % 64)>>
    ELSE IF p < 65536
         THEN <<224 + (p \div 4096), 128 + ((p \div 64) % 64), 128 + (p % 64)>>
         ELSE <<240 + (p \div 262144), 128 + ((p \div 4096) % 64),
                128 + ((p \div 64) % 64), 128 + (p % 64)>>

Utf8Encode(s) == Flatten([i \in 1..Len(s) |-> Utf8EncodePoint(s[i])])

Attributes(c, rec) ==
    CASE c = "PHDRRecord" -> <<rec.preset_name, rec.preset, rec.bank, rec.bag_ndx,
                               rec.library, rec.genre, rec.morphology>>
      [] c = "XBAGRecord" -> <<rec.gen_ndx, rec.mod_ndx>>
      [] c = "XMODRecord" -> <<rec.mod_src_oper, rec.mod_dest_oper, rec.mod_amount,
                               rec.mod_arm_src_oper, rec.mod_trans_oper>>
      [] c = "XGENRecord" -> <<rec.gen_oper, rec.gen_amount>>
      [] c = "INSTRecord" -> <<rec.inst_name, rec.inst_bag_ndx>>
      [] c = "SHDRRecord" -> <<rec.sample_name, rec.start, rec.end, rec.start_loop,
                               rec.end_loop, rec.sample_rate, rec.original_pitch,
                               rec.pitch_correction, rec.sample_link,
                               rec.sample_type>>

PackField(f, v) ==
    CASE f.code = "s" -> LET e == Utf8Encode(v)
                         IN  IF Len(e) >= f.n THEN SubSeq(e, 1, f.n)
                             ELSE e \o Zeros(f.n - Len(e))
      [] f.code = "b" -> <<(v + 256) % 256>>
      [] OTHER -> ToLE(v, FieldWidth(f))

PackRecord(c, rec) ==
    Flatten([i \in 1..Len(Format(c)) |-> PackField(Format(c)[i], Attributes(c, rec)[i])])

Reencode(c, recs) == Flatten([i \in 1..Len(recs) |-> PackRecord(c, recs[i])])

(***************************************************************************)
(* Inputs of a stand-alone ChunkParser: byte ranges made of whole records  *)
(* of the class, a last record (the sentinel) and a few bytes more.        *)
(***************************************************************************)
\* the fields PHDRRecord.__init__ drops
Dropped(c, i) == c = "PHDRRecord" /\ i >= 5

\* the first bytes of a name field, which is NUL-padded to its width: no
\* name, a name behind a NUL, a two-byte character, a byte that is not UTF-8
NamePrefixes == {<<>>, <<0, 65>>, <<195, 169>>, <<255>>}

\* values of the numeric fields a record keeps and of those it drops; a
\* one-byte field takes the low byte
FieldValues == {<<0, 0>>, <<456, 0>>, <<456, 456>>}

RecBytes(c, name, v, r) ==
    LET fmt == Format(c)
    IN  Flatten([i \in 1..Len(fmt) |->
            IF fmt[i].code = "s" THEN name \o Zeros(fmt[i].n - Len(name))
            ELSE ToLE(IF Dropped(c, i) THEN r ELSE v, FieldWidth(fmt[i]))])

SampleRecs(c) ==
    {RecBytes(c, n, v[1], v[2]) :
        n \in (IF HasName(c) THEN NamePrefixes ELSE {<<>>}),
        v \in (IF c = "PHDRRecord" THEN FieldValues
               ELSE {w \in FieldValues : w[2] = 0})}

\* a terminal record is zero-filled, or named "EOP" with its index fields set
Sentinels(c) ==
    {Zeros(RecSize(c)),
     RecBytes(c, IF HasName(c) THEN <<69, 79, 80>> ELSE <<>>, 456, 0)}

TailBytes(t) == [i \in 1..t |-> 7]

Call(d, sz) == [data |-> d, size |-> sz]

\* the arguments (data, size): up to MaxTail bytes alone; whole records and
\* a terminal record; the same with bytes behind the terminal record; the
\* same with a size that runs two records past the end of data
ChunkInputs(c) ==
    {Call(TailBytes(t), t) : t \in 0..MaxTail}
    \cup UNION {
            {Call(Flatten(rs) \o s, Len(rs) * RecSize(c) + RecSize(c)) :
                s \in Sentinels(c)}
            \cup {Call(Flatten(rs) \o Zeros(RecSize(c)) \o TailBytes(t),
                       Len(rs) * RecSize(c) + RecSize(c) + t) : t \in 1..MaxTail}
            \cup {Call(Flatten(rs) \o Zeros(RecSize(c)),
                       Len(rs) * RecSize(c) + 3 * RecSize(c))} :
            rs \in UNION {[1..n -> SampleRecs(c)] : n \in 0..MaxRecs}}

(***************************************************************************)
(* The hierarchy resolver: next_bag, next_gen and process.                 *)
(***************************************************************************)
GEN_INSTRUMENT == 41

\* res = None in next_bag and next_gen: no index, the indices being naturals
NoNdx == -1

\* the loop of next_bag over phdr.records from record i on, res so far
RECURSIVE NextBagLoop(_, _, _, _)
NextBagLoop(recs, i, bag_ndx, res) ==
    IF i > Len(recs) THEN res
    ELSE NextBagLoop(recs, i + 1, bag_ndx,
            IF recs[i].bag_ndx > bag_ndx
            THEN IF res = NoNdx THEN recs[i].bag_ndx
                 ELSE IF recs[i].bag_ndx < res THEN recs[i].bag_ndx ELSE res
            ELSE res)

\* the first greater index found, not the smallest
NextBagFirstFound(recs, bag_ndx) ==
    LET later == {i \in 1..Len(recs) : recs[i].bag_ndx > bag_ndx}
    IN  IF later = {} THEN NoNdx
        ELSE recs[CHOOSE i \in later : \A j \in later : i <= j].bag_ndx

next_bag(recs, bag_ndx) == NextBagLoop(recs, 1, bag_ndx, NoNdx)

\* the loop of next_gen over pbag.records from record i on, res so far
RECURSIVE NextGenLoop(_, _, _, _)
NextGenLoop(recs, i, gen_ndx, res) ==
    IF i > Len(recs) THEN res
    ELSE NextGenLoop(recs, i + 1, gen_ndx,
            IF recs[i].gen_ndx > gen_ndx
            THEN IF res = NoNdx THEN recs[i].gen_ndx
                 ELSE IF recs[i].gen_ndx < res THEN recs[i].gen_ndx ELSE res
            ELSE res)

next_gen(recs, gen_ndx) == NextGenLoop(recs, 1, gen_ndx, NoNdx)

\* list.sort(key=lambda r: r.bank) is stable: a record goes behind every
\* record of the sorted part whose bank is not greater
RECURSIVE InsertByBank(_, _)
InsertByBank(sorted, rec) ==
    IF sorted = <<>> THEN <<rec>>
    ELSE IF Head(sorted).bank <= rec.bank
         THEN <<Head(sorted)>> \o InsertByBank(Tail(sorted), rec)
         ELSE <<rec>> \o sorted

RECURSIVE SortLoop(_, _)
SortLoop(recs, sorted) ==
    IF recs = <<>> THEN sorted
    ELSE SortLoop(Tail(recs), InsertByBank(sorted, Head(recs)))

\* a sort by bank that puts a record in front of its equals
RECURSIVE InsertByBankUnstable(_, _)
InsertByBankUnstable(sorted, rec) ==
    IF sorted = <<>> THEN <<rec>>
    ELSE IF Head(sorted).bank < rec.bank
         THEN <<Head(sorted)>> \o InsertByBankUnstable(Tail(sorted), rec)
         ELSE <<rec>> \o sorted

RECURSIVE SortLoopUnstable(_, _)
SortLoopUnstable(recs, sorted) ==
    IF recs = <<>> THEN sorted
    ELSE SortLoopUnstable(Tail(recs), InsertByBankUnstable(sorted, Head(recs)))

SortByBankUnstable(recs) == SortLoopUnstable(recs, <<>>)

SortByBank(recs) == SortLoop(recs, <<>>)

\* zones of a preset header (process, the first lines of the loop body)
Zones(a, rec) ==
    LET next == next_bag(a.phdr, rec.bag_ndx)
    IN  IF next = NoNdx THEN Len(a.pbag) - rec.bag_ndx ELSE next - rec.bag_ndx

\* gens of a zone
Gens(a, bag) ==
    LET next == next_gen(a.pbag, bag.gen_ndx)
    IN  IF next = NoNdx THEN Len(a.pgen) - bag.gen_ndx ELSE next - bag.gen_ndx

InSeq(x, s) == \E i \in 1..Len(s) : s[i] = x

\* an append without the membership test
AddInstrumentAlways(instruments, name) == Append(instruments, name)

\* if ins.inst_name not in instruments: instruments.append(ins.inst_name)
AddInstrument(instruments, name) ==
    IF InSeq(name, instruments) THEN instruments ELSE Append(instruments, name)

\* for gen_idx in range(bag.gen_ndx, bag.gen_ndx+gens), from gen_idx on;
\* an index past the end of a list raises IndexError
RECURSIVE GenLoop(_, _, _, _)
GenLoop(a, gen_idx, stop, instruments) ==
    IF gen_idx >= stop THEN [ok |-> TRUE, instruments |-> instruments]
    ELSE IF gen_idx >= Len(a.pgen) THEN [ok |-> FALSE, instruments |-> instruments]
    ELSE LET gen == a.pgen[gen_idx + 1]
         IN  IF gen.gen_oper = GEN_INSTRUMENT
             THEN IF gen.gen_amount >= Len(a.inst)
                  THEN [ok |-> FALSE, instruments |-> instruments]
                  ELSE GenLoop(a, gen_idx + 1, stop,
                          AddInstrument(instruments,
                                        a.inst[gen.gen_amount + 1].inst_name))
             ELSE GenLoop(a, gen_idx + 1, stop, instruments)

\* for bag_idx in range(rec.bag_ndx, rec.bag_ndx+zones), from bag_idx on
RECURSIVE BagLoop(_, _, _, _)
BagLoop(a, bag_idx, stop, instruments) ==
    IF bag_idx >= stop THEN [ok |-> TRUE, instruments |-> instruments]
    ELSE IF bag_idx >= Len(a.pbag) THEN [ok |-> FALSE, instruments |-> instruments]
    ELSE LET bag == a.pbag[bag_idx + 1]
             r == GenLoop(a, bag.gen_ndx, bag.gen_ndx + Gens(a, bag), instruments)
         IN  IF ~r.ok THEN r ELSE BagLoop(a, bag_idx + 1, stop, r.instruments)

\* the instruments list of a preset header, or the IndexError
Instruments(a, rec) ==
    BagLoop(a, rec.bag_ndx, rec.bag_ndx + Zones(a, rec), <<>>)

BankEntry(preset, name, bag_ndx, zones, instruments) ==
    [preset |-> preset, name |-> name, bag_ndx |-> bag_ndx, zones |-> zones,
     instruments |-> instruments]

\* the dict banks is the sequence of its items in insertion order
HasBank(bs, b) == \E i \in 1..Len(bs) : bs[i].bank = b

\* if b not in banks.keys(): banks[b] = list()
EnsureBank(bs, b) ==
    IF HasBank(bs, b) THEN bs ELSE Append(bs, [bank |-> b, entries |-> <<>>])

\* banks[b].append(entry), b being a key
AppendEntry(bs, b, entry) ==
    [i \in 1..Len(bs) |->
        IF bs[i].bank = b
        THEN [bs[i] EXCEPT !.entries = Append(@, entry)]
        ELSE bs[i]]

(***************************************************************************)
(* A stand-alone ChunkParser: ChunkParser(rec_class) was constructed       *)
(* (records is empty) and parse(data, size) is called once.                *)
(***************************************************************************)
InitChunk ==
    /\ pc = "parse"
    /\ cls \in RecordClasses
    /\ \E call \in ChunkInputs(cls) : data = call.data /\ size = call.size
    /\ records = <<>>
    /\ file = <<>> /\ fpos = 0 /\ info = InfoList(<<>>) /\ arrays = None /\ nchunk = 0
    /\ banks = <<>> /\ k = 0 /\ saved = None /\ reports = {} /\ err = None

\* chunk.parse(data, size)
ChunkParse ==
    /\ pc = "parse"
    /\ LET r == Parse(cls, data, size, records)
       IN  /\ records' = r.records
           /\ err' = r.error
           /\ pc' = IF r.ok THEN "parsed" ELSE "raised"
    /\ UNCHANGED <<file, fpos, info, arrays, nchunk, banks, k, saved, reports,
                   cls, data, size>>

NextChunk == ChunkParse

SpecChunk == InitChunk /\ [][NextChunk]_vars

(***************************************************************************)
(* Chunk identifiers.  IdStr gives the code points of the id strings the   *)
(* program names (and of JUNK, an id it does not know).                    *)
(***************************************************************************)
IdStr ==
    [RIFF |-> <<82, 73, 70, 70>>,
     sfbk |-> <<115, 102, 98, 107>>,
     LIST |-> <<76, 73, 83, 84>>,
     INFO |-> <<73, 78, 70, 79>>,
     sdta |-> <<115, 100, 116, 97>>,
     pdta |-> <<112, 100, 116, 97>>,
     phdr |-> <<112, 104, 100, 114>>,
     pbag |-> <<112, 98, 97, 103>>,
     pmod |-> <<112, 109, 111, 100>>,
     pgen |-> <<112, 103, 101, 110>>,
     inst |-> <<105, 110, 115, 116>>,
     ibag |-> <<105, 98, 97, 103>>,
     imod |-> <<105, 109, 111, 100>>,
     igen |-> <<105, 103, 101, 110>>,
     shdr |-> <<115, 104, 100, 114>>,
     ifil |-> <<105, 102, 105, 108>>,
     isng |-> <<105, 115, 110, 103>>,
     INAM |-> <<73, 78, 65, 77>>,
     irom |-> <<105, 114, 111, 109>>,
     iver |-> <<105, 118, 101, 114>>,
     ICRD |-> <<73, 67, 82, 68>>,
     IENG |-> <<73, 69, 78, 71>>,
     IPRD |-> <<73, 80, 82, 68>>,
     ICOP |-> <<73, 67, 79, 80>>,
     ICMT |-> <<73, 67, 77, 84>>,
     ISFT |-> <<73, 83, 70, 84>>,
     JUNK |-> <<74, 85, 78, 75>>]

\* chunk_id(id_str): the four characters as a little-endian number
RECURSIVE ChunkIdLoop(_, _, _)
ChunkIdLoop(str, j, id) ==
    IF j >= 4 THEN id ELSE ChunkIdLoop(str, j + 1, id + str[j + 1] * Pow256(j))

chunk_id(id) == ChunkIdLoop(IdStr[id], 0, 0)

\* check_id(act_id_num, exp_id_str)
check_id(act_id_num, exp_id) == act_id_num = chunk_id(exp_id)

\* one "I" of struct.unpack at byte off of buf, on a little-endian machine
U32At(buf, off) == FromLE(SubSeq(buf, off + 1, off + 4))

\* f"{n}": the decimal digits of a natural
RECURSIVE Str(_)
Str(n) == IF n < 10 THEN <<48 + n>> ELSE Str(n \div 10) \o <<48 + (n % 10)>>

(***************************************************************************)
(* parse_info_list_chunk(data, cp).                                        *)
(***************************************************************************)
\* the dict chunks, in its order: id, label, mandatory
INFO_CHUNKS ==
    <<[id |-> "ifil", label |-> "Version", mandatory |-> TRUE],
      [id |-> "isng", label |-> "Target Sound Engine", mandatory |-> TRUE],
      [id |-> "INAM", label |-> "Sound Font Bank Name", mandatory |-> TRUE],
      [id |-> "irom", label |-> "ROM", mandatory |-> FALSE],
      [id |-> "iver", label |-> "ROM Revision", mandatory |-> FALSE],
      [id |-> "ICRD", label |-> "Date of Creation of the Bank", mandatory |-> FALSE],
      [id |-> "IENG", label |-> "Sound Designers and Engineers for the Bank",
       mandatory |-> FALSE],
      [id |-> "IPRD", label |-> "Product for which the Bank was intended",
       mandatory |-> FALSE],
      [id |-> "ICOP", label |-> "Copyright", mandatory |-> FALSE],
      [id |-> "ICMT", label |-> "Comments", mandatory |-> FALSE],
      [id |-> "ISFT", label |-> "SoundFont tools used to create and alter the bank",
       mandatory |-> FALSE]>>

\* parse_sub_chunk(data_, cp, id_): found = FALSE is the result (None, None)
parse_sub_chunk(d, cp, id) ==
    IF Len(Slice(d, cp, cp + 8)) < 8
    THEN [ok |-> FALSE, error |-> "struct.error"]
    ELSE IF U32At(d, cp) # chunk_id(id)
    THEN [ok |-> TRUE, found |-> FALSE]
    ELSE LET size_ == U32At(d, cp + 4)
         IN  IF id \in {"ifil", "iver"}
             THEN LET v == Slice(d, cp + 8, cp + 8 + size_)
                  IN  IF Len(v) < 4
                      THEN [ok |-> FALSE, error |-> "IndexError"]
                      ELSE [ok |-> TRUE, found |-> TRUE,
                            str |-> Str(v[2] * 256 + v[1]) \o <<46>>
                                    \o Str(v[4] * 256 + v[3]),
                            size |-> size_ + 8]
             ELSE \* for j in range(cp+8, cp+size_+7): s += chr(data_[j])
                  IF size_ >= 2 /\ cp + size_ + 7 > Len(d)
                  THEN [ok |-> FALSE, error |-> "IndexError"]
                  ELSE [ok |-> TRUE, found |-> TRUE,
                        str |-> Strip(Slice(d, cp + 8, cp + size_ + 7)),
                        size |-> size_ + 8]

\* if name[1]: a sub-chunk that was not found must be there
MustBePresent(entry) == entry.mandatory

\* the loop over chunks.items() from entry n on
RECURSIVE InfoLoop(_, _, _, _)
InfoLoop(d, cp, n, list) ==
    IF n > Len(INFO_CHUNKS) THEN [ok |-> TRUE, info |-> InfoList(list)]
    ELSE LET r == parse_sub_chunk(d, cp, INFO_CHUNKS[n].id)
         IN  IF ~r.ok THEN [ok |-> FALSE, error |-> r.error]
             ELSE IF ~r.found
                  THEN IF MustBePresent(INFO_CHUNKS[n])
                       THEN [ok |-> TRUE, info |-> InfoNone]
                       ELSE InfoLoop(d, cp, n + 1, list)
                  ELSE InfoLoop(d, cp + r.size, n + 1,
                                Append(list, <<INFO_CHUNKS[n].label, r.str>>))

parse_info_list_chunk(d, cp) == InfoLoop(d, cp, 1, <<>>)

(***************************************************************************)
(* parse_file(fpath) and parse_chunk(f, rec_class, chunk_id).  file holds  *)
(* the bytes of the file and fpos the position of f; data, the first read  *)
(* of parse_file, is the first READ_SIZE bytes.                            *)
(***************************************************************************)
READ_SIZE == 1024

\* the record array chunks in the order parse_file reads them
ChunkNames == <<"phdr", "pbag", "pmod", "pgen", "inst", "ibag", "imod", "igen", "shdr">>

FirstRead == Slice(file, 0, READ_SIZE)

\* a test that lets a declared size past the end of the file through
SizeOkOrLarger(riff_size, file_size) == riff_size + 8 >= file_size

\* the test of "if riff_size + 8 != file_size"
SizeOk(riff_size, file_size) == riff_size + 8 = file_size

Exit == [outcome |-> "exit", error |-> "SystemExit"]
Raise(e) == [outcome |-> "raised", error |-> e]

\* the first 24 bytes: RIFF, the size, sfbk, LIST, INFO
HeaderStage ==
    LET d == FirstRead
    IN  IF Len(Slice(d, 0, 24)) < 24 THEN Raise("struct.error")
        ELSE IF ~check_id(U32At(d, 0), "RIFF") THEN Exit
        ELSE IF ~SizeOk(U32At(d, 4), Len(file)) THEN Exit
        ELSE IF ~check_id(U32At(d, 8), "sfbk") THEN Exit
        ELSE IF ~check_id(U32At(d, 12), "LIST") THEN Exit
        ELSE IF ~check_id(U32At(d, 20), "INFO") THEN Exit
        ELSE [outcome |-> "ok", error |-> None]

ParseHeader ==
    /\ pc = "parse_file"
    /\ pc' = IF HeaderStage.outcome = "ok" THEN "parse_info" ELSE HeaderStage.outcome
    /\ err' = HeaderStage.error
    /\ fpos' = Len(FirstRead)
    /\ UNCHANGED <<file, info, arrays, nchunk, banks, k, saved, reports,
                   cls, data, size, records>>

\* info = parse_info_list_chunk(data, 24); the result is not looked at
ParseInfo ==
    /\ pc = "parse_info"
    /\ LET r == parse_info_list_chunk(FirstRead, 24)
       IN  IF r.ok
           THEN info' = r.info /\ pc' = "parse_sdta" /\ UNCHANGED err
           ELSE pc' = "raised" /\ err' = r.error /\ UNCHANGED info
    /\ UNCHANGED <<file, fpos, arrays, nchunk, banks, k, saved, reports,
                   cls, data, size, records>>

\* the sample list: its LIST id is checked and its bytes are skipped
SdtaStage ==
    LET d == FirstRead
        curr_pos == U32At(d, 16) + 20
    IN  IF Len(Slice(d, curr_pos, curr_pos + 8)) < 8 THEN Raise("struct.error")
        ELSE IF ~check_id(U32At(d, curr_pos), "LIST") THEN Exit
        ELSE [outcome |-> "ok", error |-> None,
              seek |-> curr_pos + 8 + U32At(d, curr_pos + 4)]

ParseSdta ==
    /\ pc = "parse_sdta"
    /\ IF SdtaStage.outcome = "ok"
       THEN pc' = "parse_pdta" /\ fpos' = SdtaStage.seek /\ UNCHANGED err
       ELSE pc' = SdtaStage.outcome /\ err' = SdtaStage.error /\ UNCHANGED fpos
    /\ UNCHANGED <<file, info, arrays, nchunk, banks, k, saved, reports,
                   cls, data, size, records>>

\* data = f.read(12): LIST, a size that is not looked at, pdta
PdtaStage ==
    LET d == Slice(file, fpos, fpos + 12)
    IN  IF Len(d) < 12 THEN Raise("struct.error")
        ELSE IF ~check_id(U32At(d, 0), "LIST") THEN Exit
        ELSE IF ~check_id(U32At(d, 8), "pdta") THEN Exit
        ELSE [outcome |-> "ok", error |-> None]

ParsePdta ==
    /\ pc = "parse_pdta"
    /\ pc' = IF PdtaStage.outcome = "ok" THEN "parse_chunks" ELSE PdtaStage.outcome
    /\ err' = PdtaStage.error
    /\ fpos' = fpos + Len(Slice(file, fpos, fpos + 12))
    /\ nchunk' = 0
    /\ UNCHANGED <<file, info, arrays, banks, k, saved, reports,
                   cls, data, size, records>>

\* the record class parse_file gives parse_chunk for each chunk
RecClassOf(name) ==
    CASE name = "phdr" -> "PHDRRecord"
      [] name \in {"pbag", "ibag"} -> "XBAGRecord"
      [] name \in {"pmod", "imod"} -> "XMODRecord"
      [] name \in {"pgen", "igen"} -> "XGENRecord"
      [] name = "inst" -> "INSTRecord"
      [] name = "shdr" -> "SHDRRecord"

\* parse_chunk(f, rec_class, chunk_id) with f at pos
parse_chunk(pos, name) ==
    LET h == Slice(file, pos, pos + 8)
    IN  IF Len(h) < 8 THEN Raise("struct.error")
        ELSE IF ~check_id(U32At(h, 0), name) THEN Exit
        ELSE LET sz == U32At(h, 4)
                 d == Slice(file, pos + 8, pos + 8 + sz)
                 r == Parse(RecClassOf(name), d, sz, <<>>)
             IN  IF ~r.ok THEN Raise(r.error)
                 ELSE [outcome |-> "ok", error |-> None, records |-> r.records,
                       pos |-> pos + 8 + Len(d)]

\* the next of the nine parse_chunk calls of parse_file
ParseChunk ==
    /\ pc = "parse_chunks"
    /\ nchunk < Len(ChunkNames)
    /\ LET name == ChunkNames[nchunk + 1]
           r == parse_chunk(fpos, name)
       IN  IF r.outcome = "ok"
           THEN /\ arrays' = [arrays EXCEPT ![name] = r.records]
                /\ fpos' = r.pos
                /\ nchunk' = nchunk + 1
                /\ UNCHANGED <<pc, err>>
           ELSE /\ pc' = r.outcome
                /\ err' = r.error
                /\ UNCHANGED <<arrays, fpos, nchunk>>
    /\ UNCHANGED <<file, info, banks, k, saved, reports, cls, data, size, records>>

\* parse_file returns its ten values and main calls process
ParseReturn ==
    /\ pc = "parse_chunks"
    /\ nchunk = Len(ChunkNames)
    /\ pc' = "process"
    /\ UNCHANGED <<file, fpos, info, arrays, nchunk, banks, k, saved, reports, err,
                   cls, data, size, records>>

(***************************************************************************)
(* process(phdr, pbag, pmod, pgen, inst, ibag, imod, igen, shdr).  arrays  *)
(* holds the records lists of the nine arguments; the lists are shared     *)
(* with the caller, so what process does to them the caller sees.          *)
(***************************************************************************)
\* a sort of a copy, which leaves the caller's list as it is
SortPhdrNot(a) == a

\* phdr.records.sort(key=lambda r: r.bank)
SortPhdr(a) == [a EXCEPT !.phdr = SortByBank(a.phdr)]

\* the call: the sort, banks = {} and the start of the loop
ProcessSort ==
    /\ pc = "process"
    /\ saved' = arrays
    /\ arrays' = SortPhdr(arrays)
    /\ banks' = <<>>
    /\ k' = 1
    /\ pc' = "process_loop"
    /\ UNCHANGED <<file, fpos, info, nchunk, reports, err, cls, data, size, records>>

\* the entry the loop body appends for rec
EntryOf(a, rec) ==
    BankEntry(rec.preset, rec.preset_name, rec.bag_ndx, Zones(a, rec),
              Instruments(a, rec).instruments)

\* one pass of "for rec in phdr.records"; an IndexError ends process after
\* banks[b] was made
ProcessPreset ==
    /\ pc = "process_loop"
    /\ k <= Len(arrays.phdr)
    /\ LET rec == arrays.phdr[k]
           withBank == EnsureBank(banks, rec.bank)
       IN  IF Instruments(arrays, rec).ok
           THEN /\ banks' = AppendEntry(withBank, rec.bank, EntryOf(arrays, rec))
                /\ k' = k + 1
                /\ UNCHANGED <<pc, err>>
           ELSE /\ banks' = withBank
                /\ pc' = "raised"
                /\ err' = "IndexError"
                /\ UNCHANGED k
    /\ UNCHANGED <<file, fpos, info, arrays, nchunk, saved, reports,
                   cls, data, size, records>>

\* return banks
ProcessReturn ==
    /\ pc = "process_loop"
    /\ k > Len(arrays.phdr)
    /\ pc' = "processed"
    /\ UNCHANGED <<file, fpos, info, arrays, nchunk, banks, k, saved, reports, err,
                   cls, data, size, records>>

NextProcess == ProcessSort \/ ProcessPreset \/ ProcessReturn

(***************************************************************************)
(* Inputs of process on its own: decoded arrays.  A preset header has its  *)
(* place in the file as preset number and in its name, so that each header *)
(* is told from the others.                                                *)
(***************************************************************************)
\* presets in the preset-header array
MaxPresets == 3
\* the bank numbers are 0..MaxBank
MaxBank == 1
\* zones in the preset-zone array; the zone-start indices are 0..MaxZones
MaxZones == 2
\* generators in the generator array; the generator-start indices are 0..MaxGens
MaxGens == 2

Preset(i, bank, bag_ndx) == PHDRRecord(<<<<80, 48 + i>>, i, bank, bag_ndx, 0, 0, 0>>)

Instrument(c) == INSTRecord(<<<<73, c>>, 0>>)

\* the arrays process only passes on
OtherArrays ==
    [pmod |-> <<XMODRecord(<<0, 0, 0, 0, 0>>)>>,
     ibag |-> <<XBAGRecord(<<0, 0>>), XBAGRecord(<<1, 0>>)>>,
     imod |-> <<>>,
     igen |-> <<XGENRecord(<<53, 0>>)>>,
     shdr |-> <<SHDRRecord(<<<<83>>, 0, 8, 0, 8, 44100, 60, 0, 0, 1>>)>>]

Arrays(ph, pb, pg, ins) ==
    [phdr |-> ph, pbag |-> pb, pmod |-> OtherArrays.pmod, pgen |-> pg,
     inst |-> ins, ibag |-> OtherArrays.ibag, imod |-> OtherArrays.imod,
     igen |-> OtherArrays.igen, shdr |-> OtherArrays.shdr]

SeqsUpTo(n, elems) == UNION {[1..m -> elems] : m \in 0..n}

\* preset headers with any banks and zone starts; zone i owns generator i,
\* which refers to one of two instruments
ZoneInputs ==
    {Arrays([i \in 1..Len(p) |-> Preset(i - 1, p[i][1], p[i][2])],
            [i \in 1..nz |-> XBAGRecord(<<i - 1, 0>>)],
            [i \in 1..nz |-> XGENRecord(<<GEN_INSTRUMENT, (i - 1) % 2>>)],
            <<Instrument(48), Instrument(49)>>) :
        p \in SeqsUpTo(MaxPresets, (0..MaxBank) \X (0..MaxZones)),
        nz \in 0..MaxZones}

\* one or two presets over any zones and generators; the generators refer
\* to instruments or are key ranges; two instruments may share a name
GenInputs ==
    {Arrays(ph,
            [i \in 1..Len(z) |-> XBAGRecord(<<z[i], 0>>)],
            [i \in 1..Len(g) |-> XGENRecord(<<g[i][1], g[i][2]>>)],
            ins) :
        ph \in {<<Preset(0, 0, 0)>>,
                <<Preset(0, 0, 0), Preset(1, 0, 1)>>,
                <<Preset(0, 1, 1), Preset(1, 0, 0)>>},
        z \in SeqsUpTo(MaxZones, 0..MaxGens),
        g \in SeqsUpTo(MaxGens, {GEN_INSTRUMENT, 43} \X (0..1)),
        ins \in {<<Instrument(48)>>,
                 <<Instrument(48), Instrument(49)>>,
                 <<Instrument(48), Instrument(48)>>}}

InitProcess(inputs) ==
    /\ pc = "process"
    /\ arrays \in inputs
    /\ banks = <<>> /\ k = 0 /\ saved = None /\ reports = {} /\ err = None
    /\ file = <<>> /\ fpos = 0 /\ info = InfoList(<<>>) /\ nchunk = Len(ChunkNames)
    /\ cls = None /\ data = <<>> /\ size = 0 /\ records = <<>>

InitZones == InitProcess(ZoneInputs)

InitGens == InitProcess(GenInputs)

SpecZones == InitZones /\ [][NextProcess]_vars

SpecGens == InitGens /\ [][NextProcess]_vars

(***************************************************************************)
(* The report stage of main: write_xlsx and write_md.  Of the writers the  *)
(* model keeps what decides whether a report is written and what they do   *)
(* to banks.                                                               *)
(***************************************************************************)
\* the keys of GENERATORS
GeneratorCodes == 0..60

GEN_SAMPLE_ID == 53

\* entries.sort(key=lambda e: e.preset), stable
RECURSIVE InsertByPreset(_, _)
InsertByPreset(sorted, e) ==
    IF sorted = <<>> THEN <<e>>
    ELSE IF Head(sorted).preset <= e.preset
         THEN <<Head(sorted)>> \o InsertByPreset(Tail(sorted), e)
         ELSE <<e>> \o sorted

RECURSIVE SortByPreset(_, _)
SortByPreset(es, sorted) ==
    IF es = <<>> THEN sorted
    ELSE SortByPreset(Tail(es), InsertByPreset(sorted, Head(es)))

SortEntries(bs) ==
    [i \in 1..Len(bs) |-> [bs[i] EXCEPT !.entries = SortByPreset(@, <<>>)]]

\* the loop of the PGEN and IGEN tabs from generator i on: the name of the
\* record a cross-reference refers to is looked up (IndexError), then the
\* name of the operator (KeyError)
RECURSIVE GenTabError(_, _, _, _)
GenTabError(gens, i, ref_oper, refs) ==
    IF i > Len(gens) THEN None
    ELSE IF gens[i].gen_oper = ref_oper /\ gens[i].gen_amount >= Len(refs)
         THEN "IndexError"
    ELSE IF gens[i].gen_oper \notin GeneratorCodes THEN "KeyError"
    ELSE GenTabError(gens, i + 1, ref_oper, refs)

\* the exception that ends write_xlsx before wb.save, or None
XlsxError(a, inf) ==
    IF inf.none THEN "TypeError"
    ELSE IF GenTabError(a.pgen, 1, GEN_INSTRUMENT, a.inst) # None
         THEN GenTabError(a.pgen, 1, GEN_INSTRUMENT, a.inst)
    ELSE GenTabError(a.igen, 1, GEN_SAMPLE_ID, a.shdr)

\* write_xlsx: "for i in info" raises TypeError on None before anything else;
\* the PHDR tab sorts the entries of each bank
WriteXlsx ==
    /\ pc = "processed"
    /\ IF XlsxError(arrays, info) = None
       THEN /\ banks' = SortEntries(banks)
            /\ reports' = reports \cup {"xlsx"}
            /\ pc' = "write_md"
            /\ UNCHANGED err
       ELSE /\ banks' = IF info.none THEN banks ELSE SortEntries(banks)
            /\ pc' = "raised"
            /\ err' = XlsxError(arrays, info)
            /\ UNCHANGED reports
    /\ UNCHANGED <<file, fpos, info, arrays, nchunk, k, saved, cls, data, size, records>>

\* write_md, then print("Done.")
WriteMd ==
    /\ pc = "write_md"
    /\ banks' = SortEntries(banks)
    /\ reports' = reports \cup {"md"}
    /\ pc' = "done"
    /\ UNCHANGED <<file, fpos, info, arrays, nchunk, k, saved, err,
                   cls, data, size, records>>

NextFile ==
    \/ ParseHeader \/ ParseInfo \/ ParseSdta \/ ParsePdta \/ ParseChunk \/ ParseReturn
    \/ ProcessSort \/ ProcessPreset \/ ProcessReturn
    \/ WriteXlsx \/ WriteMd

(***************************************************************************)
(* Input files of main.                                                    *)
(***************************************************************************)
\* sub-chunks in the informational list of a file
MaxSubs == 5

\* the sub-chunk ids on disk: the mandatory three, two optional ones and one
\* the catalog does not have
DiskIds == {"ifil", "isng", "INAM", "ICRD", "ICMT", "JUNK"}

\* a version 2.1, or a text of two characters and a NUL
Payload(id) ==
    IF id \in {"ifil", "iver"} THEN <<2, 0, 1, 0>>
    ELSE <<IdStr[id][2], IdStr[id][3], 0>>

U32(n) == ToLE(n, 4)

SubChunk(id) == IdStr[id] \o U32(Len(Payload(id))) \o Payload(id)

PackAll(c, recs) == Reencode(c, recs)

EOP(bag_ndx) == PHDRRecord(<<<<69, 79, 80>>, 0, 0, bag_ndx, 0, 0, 0>>)

\* a bank of two presets, each with one zone of one instrument generator
SmallBank ==
    [phdr |-> PackAll("PHDRRecord", <<Preset(0, 1, 0), Preset(1, 0, 1), EOP(2)>>),
     pbag |-> PackAll("XBAGRecord", <<XBAGRecord(<<0, 0>>), XBAGRecord(<<1, 0>>),
                                      XBAGRecord(<<2, 0>>)>>),
     pmod |-> Zeros(RecSize("XMODRecord")),
     pgen |-> PackAll("XGENRecord", <<XGENRecord(<<GEN_INSTRUMENT, 1>>),
                                      XGENRecord(<<GEN_INSTRUMENT, 0>>),
                                      XGENRecord(<<0, 0>>)>>),
     inst |-> PackAll("INSTRecord", <<Instrument(48), Instrument(49),
                                      INSTRecord(<<<<69, 79, 73>>, 2>>)>>),
     ibag |-> PackAll("XBAGRecord", OtherArrays.ibag \o <<XBAGRecord(<<2, 0>>)>>),
     imod |-> Zeros(RecSize("XMODRecord")),
     igen |-> PackAll("XGENRecord", OtherArrays.igen \o <<XGENRecord(<<0, 0>>)>>),
     shdr |-> PackAll("SHDRRecord", OtherArrays.shdr)
              \o RecBytes("SHDRRecord", <<69, 79, 83>>, 0, 0)]

\* every array is its terminal record alone
EmptyBank == [n \in {ChunkNames[i] : i \in 1..Len(ChunkNames)} |->
                 Zeros(RecSize(RecClassOf(n)))]

Bodies ==
    {SmallBank,
     EmptyBank,
     \* two bytes too many in the zone array
     [SmallBank EXCEPT !.pbag = @ \o <<7, 7>>],
     \* a generator that refers to an instrument that is not there
     [SmallBank EXCEPT !.pgen = PackAll("XGENRecord",
         <<XGENRecord(<<GEN_INSTRUMENT, 5>>), XGENRecord(<<0, 0>>)>>)],
     \* a generator operator that GENERATORS does not have
     [SmallBank EXCEPT !.pgen = PackAll("XGENRecord",
         <<XGENRecord(<<61, 0>>), XGENRecord(<<GEN_INSTRUMENT, 0>>),
           XGENRecord(<<0, 0>>)>>)]}

\* the ids a file must have, in the order parse_file checks them, the size
\* check being the second check
FrameIds == <<"RIFF", "RIFF", "sfbk", "LIST", "INFO", "LIST", "LIST", "pdta">>

\* the checks of parse_file: 0 is no defect, d > 0 makes check d fail
Defects == 0..(Len(FrameIds) + Len(ChunkNames))

\* the file with the sub-chunks subs and the arrays of body; with defect d
\* the id of check d is JUNK, or the declared size is one too large
BuildFile(subs, body, d) ==
    LET id(n) == IF d = n THEN IdStr.JUNK ELSE IdStr[FrameIds[n]]
        cid(i) == IF d = Len(FrameIds) + i THEN IdStr.JUNK ELSE IdStr[ChunkNames[i]]
        info_body == Flatten([i \in 1..Len(subs) |-> SubChunk(subs[i])])
        info_list == id(4) \o U32(4 + Len(info_body)) \o id(5) \o info_body
        sdta_list == id(6) \o U32(4 + 2) \o IdStr.sdta \o <<1, 2>>
        chunks == Flatten([i \in 1..Len(ChunkNames) |->
                      cid(i) \o U32(Len(body[ChunkNames[i]])) \o body[ChunkNames[i]]])
        pdta_list == id(7) \o U32(4 + Len(chunks)) \o id(8) \o chunks
        rest == id(3) \o info_list \o sdta_list \o pdta_list
    IN  id(1) \o U32(Len(rest) + (IF d = 2 THEN 1 ELSE 0)) \o rest

Canonical == <<"ifil", "isng", "INAM", "ICRD", "ICMT">>

\* lists of different sub-chunks in any order
SubLists ==
    {s \in SeqsUpTo(MaxSubs, DiskIds) : \A i, j \in 1..Len(s) : i # j => s[i] # s[j]}

FileInputs ==
    {BuildFile(s, SmallBank, 0) : s \in SubLists}
    \cup {BuildFile(s, SmallBank, d) :
            s \in {Canonical, <<"ifil", "isng">>, <<"JUNK", "ifil", "isng", "INAM">>},
            d \in Defects}
    \cup {BuildFile(Canonical, b, 0) : b \in Bodies}

InitFile ==
    /\ pc = "parse_file"
    /\ file \in FileInputs
    /\ fpos = 0
    /\ info = InfoList(<<>>)
    /\ arrays = [n \in {ChunkNames[i] : i \in 1..Len(ChunkNames)} |-> <<>>]
    /\ nchunk = 0
    /\ banks = <<>> /\ k = 0 /\ saved = None /\ reports = {} /\ err = None
    /\ cls = None /\ data = <<>> /\ size = 0 /\ records = <<>>

Spec == InitFile /\ [][NextFile]_vars

(***************************************************************************)
(* Properties of the hierarchy resolver.  saved holds the arrays as they   *)
(* were passed to process, the preset headers in file order.               *)
(***************************************************************************)
MinOf(set) == CHOOSE x \in set : \A y \in set : x <= y

\* the entries of all banks, bank after bank
AllEntries == Flatten([i \in 1..Len(banks) |-> banks[i].entries])

\* the zone count the rule gives a preset whose zones start at z
ZoneCount(z) ==
    LET later == {saved.phdr[i].bag_ndx : i \in 1..Len(saved.phdr)} \ (0..z)
    IN  IF later = {} THEN Len(saved.pbag) - z ELSE MinOf(later) - z

\* the entries made from the preset header rec
EntriesOf(rec) ==
    {i \in 1..Len(AllEntries) :
        /\ AllEntries[i].preset = rec.preset
        /\ AllEntries[i].name = rec.preset_name
        /\ AllEntries[i].bag_ndx = rec.bag_ndx}

\* C1: the zone count of an entry is next_z - z, next_z the smallest zone
\* start of all preset headers greater than its zone start z, and
\* len(zone array) - z when there is none; once process has returned every
\* preset header has such an entry
C1_ZoneCount ==
    /\ pc \in {"process_loop", "processed", "raised"} =>
          \A i \in 1..Len(AllEntries) :
              AllEntries[i].zones = ZoneCount(AllEntries[i].bag_ndx)
    /\ pc = "processed" =>
          \A i \in 1..Len(saved.phdr) :
              \E j \in EntriesOf(saved.phdr[i]) :
                  AllEntries[j].zones = ZoneCount(saved.phdr[i].bag_ndx)

\* zone starts 0, 2, 1 in file order over two zones: the next start of the
\* first preset is the one found last, the second preset has the last start
C1_Witness ==
    /\ pc = "processed"
    /\ Len(saved.phdr) = 3
    /\ saved.phdr[1].bag_ndx = 0
    /\ saved.phdr[2].bag_ndx = 2
    /\ saved.phdr[3].bag_ndx = 1
    /\ Len(saved.pbag) = 2
    /\ \E i \in 1..Len(AllEntries) :
          AllEntries[i].bag_ndx = 0 /\ AllEntries[i].zones = 1

\* the generators of the zone at index b (from 0): [g, next_g)
ZoneGenerators(b) ==
    LET g == saved.pbag[b + 1].gen_ndx
        later == {saved.pbag[i].gen_ndx : i \in 1..Len(saved.pbag)} \ (0..g)
        next_g == IF later = {} THEN Len(saved.pgen) ELSE MinOf(later)
    IN  g..(next_g - 1)

\* the places <<zone, generator>> of the instrument generators of entry e
InstrumentRefs(e) ==
    {p \in (e.bag_ndx..(e.bag_ndx + e.zones - 1)) \X (0..(Len(saved.pgen) - 1)) :
        /\ p[2] \in ZoneGenerators(p[1])
        /\ saved.pgen[p[2] + 1].gen_oper = 41}

RefName(p) == saved.inst[saved.pgen[p[2] + 1].gen_amount + 1].inst_name

Before(p, q) == p[1] < q[1] \/ (p[1] = q[1] /\ p[2] < q[2])

\* the first place in e's zones where name is referred to
FirstRef(e, name) ==
    CHOOSE p \in InstrumentRefs(e) :
        /\ RefName(p) = name
        /\ \A q \in InstrumentRefs(e) : RefName(q) = name => ~Before(q, p)

\* C2: the instruments list of an entry holds exactly the names its zones'
\* instrument generators (operator 41) refer to, each once, in the order in
\* which the names first appear
C2_Instruments ==
    pc \in {"process_loop", "processed", "raised"} =>
        \A i \in 1..Len(AllEntries) :
            LET e == AllEntries[i]
                l == e.instruments
            IN  /\ {l[n] : n \in 1..Len(l)} = {RefName(p) : p \in InstrumentRefs(e)}
                /\ \A m, n \in 1..Len(l) : m # n => l[m] # l[n]
                /\ \A m, n \in 1..Len(l) :
                      m < n => Before(FirstRef(e, l[m]), FirstRef(e, l[n]))

\* an entry that lists the second instrument before the first, from three
\* or more references
C2_Witness ==
    /\ pc = "processed"
    /\ \E i \in 1..Len(AllEntries) :
          /\ AllEntries[i].instruments = <<<<73, 49>>, <<73, 48>>>>
          /\ Cardinality(InstrumentRefs(AllEntries[i])) >= 3

\* the file-order index of the header an entry was made from
HeaderOf(e) ==
    CHOOSE i \in 1..Len(saved.phdr) :
        /\ saved.phdr[i].preset = e.preset
        /\ saved.phdr[i].preset_name = e.name
        /\ saved.phdr[i].bag_ndx = e.bag_ndx

\* C4: when process returns there is exactly one entry per preset header,
\* in the list of the header's bank; the entries of a list are in the file
\* order of their headers; the banks are in ascending order
C4_OnePerHeader ==
    pc = "processed" =>
        /\ Len(AllEntries) = Len(saved.phdr)
        /\ \A i \in 1..Len(saved.phdr) :
              /\ Cardinality(EntriesOf(saved.phdr[i])) = 1
              /\ \E b \in 1..Len(banks) :
                    /\ banks[b].bank = saved.phdr[i].bank
                    /\ \E n \in 1..Len(banks[b].entries) :
                          /\ banks[b].entries[n].preset = saved.phdr[i].preset
                          /\ banks[b].entries[n].name = saved.phdr[i].preset_name
                          /\ banks[b].entries[n].bag_ndx = saved.phdr[i].bag_ndx
        /\ \A b \in 1..Len(banks) :
              \A m, n \in 1..Len(banks[b].entries) :
                  m < n => HeaderOf(banks[b].entries[m]) < HeaderOf(banks[b].entries[n])
        /\ \A b, c \in 1..Len(banks) : b < c => banks[b].bank < banks[c].bank

\* banks 1, 0, 1 in file order: the sort moves the second header to the
\* front and keeps the first before the third
C4_Witness ==
    /\ pc = "processed"
    /\ Len(saved.phdr) = 3
    /\ saved.phdr[1].bank = 1
    /\ saved.phdr[2].bank = 0
    /\ saved.phdr[3].bank = 1
    /\ Len(banks) = 2
    /\ Len(banks[2].entries) = 2

WithBank(recs, b) == SelectSeq(recs, LAMBDA r : r.bank = b)

ZoneRange(e) == e.bag_ndx .. (e.bag_ndx + e.zones - 1)

\* C11: the zone index ranges [bag_ndx, bag_ndx + zones) of two different
\* entries made by process never overlap, also when two preset headers share
\* a zone start
C11_Stated ==
    pc \in {"process_loop", "processed", "raised"} =>
        \A i, j \in 1..Len(AllEntries) :
            i # j => ZoneRange(AllEntries[i]) \cap ZoneRange(AllEntries[j]) = {}

\* what the code keeps of it: two entries whose ranges overlap have the same
\* zone start, and then the same range
C11_OverlapOnlySharedStart ==
    pc \in {"process_loop", "processed", "raised"} =>
        \A i, j \in 1..Len(AllEntries) :
            ZoneRange(AllEntries[i]) \cap ZoneRange(AllEntries[j]) # {} =>
                /\ AllEntries[i].bag_ndx = AllEntries[j].bag_ndx
                /\ AllEntries[i].zones = AllEntries[j].zones

(***************************************************************************)
(* Properties of the record array decoder.                                 *)
(***************************************************************************)
\* parse returned from a byte range of length L = size, a multiple of W
ParsedWhole ==
    /\ pc = "parsed"
    /\ size = Len(data)
    /\ size % RecSize(cls) = 0

\* the bytes of record i (from 1) of the byte range
RecordAt(i) == SubSeq(data, (i - 1) * RecSize(cls) + 1, i * RecSize(cls))

\* field j of record i of the byte range
FieldAt(i, j) ==
    SubSeq(RecordAt(i), FieldOffset(Format(cls), j) + 1,
           FieldOffset(Format(cls), j) + FieldWidth(Format(cls)[j]))

AllZero(bs) == \A i \in 1..Len(bs) : bs[i] = 0

C6_Stated ==
    (size = Len(data) /\ size % RecSize(cls) # 0 /\ pc # "parse") =>
        pc = "raised" /\ records = <<>>

KeptWhole(i) ==
    \A j \in 1..Len(Format(cls)) :
        /\ Format(cls)[j].code = "s"
              => FieldAt(i, j)[1] # 0 \/ AllZero(FieldAt(i, j))
        /\ Dropped(cls, j) => AllZero(FieldAt(i, j))

AfterParseFile == {"process", "process_loop", "processed", "write_md", "done"}

\* C7 as stated: when a mandatory informational sub-chunk is missing (info
\* is None) the parse is over: no record array is decoded, parse_file
\* returns nothing, process and the report writers do not run
C7_Stated ==
    info.none => /\ nchunk = 0
                 /\ pc \notin AfterParseFile
                 /\ banks = <<>>

\* the id at byte off of the file, -1 past its end
IdAt(off) == IF off + 4 <= Len(file) THEN U32At(file, off) ELSE -1

SizeAt(off) == IF off + 4 <= Len(file) THEN U32At(file, off) ELSE 0

\* the end of the informational list, whose size field is at byte 16
InfoEnd == 20 + SizeAt(16)

\* the ids of the sub-chunks of the informational list from byte off on
RECURSIVE DiskSubs(_)
DiskSubs(off) ==
    IF off + 8 > InfoEnd THEN {}
    ELSE {IdAt(off)} \cup DiskSubs(off + 8 + SizeAt(off + 4))

OnDisk(entry) == chunk_id(entry.id) \in DiskSubs(24)

\* the labels of the catalog sub-chunks that are in the file, in catalog order
ExpectedLabels ==
    LET present == SelectSeq(INFO_CHUNKS, OnDisk)
    IN  [i \in 1..Len(present) |-> present[i].label]

\* C8 as stated, for a list that has the three mandatory sub-chunks: the
\* metadata has one pair for every catalog sub-chunk of the list, in catalog
\* order, whatever their order on disk and whatever unknown sub-chunks are
\* between them
C8_Stated ==
    (pc = "parse_sdta" /\ \A n \in 1..3 : OnDisk(INFO_CHUNKS[n])) =>
        /\ ~info.none
        /\ [i \in 1..Len(info.list) |-> info.list[i][1]] = ExpectedLabels

\* the end of the sample list, which follows the informational list
SdtaEnd == InfoEnd + 8 + SizeAt(InfoEnd + 4)

\* the ids of the record array chunks from chunk i (from 1) on, which
\* begins at byte off, are the expected ones
RECURSIVE ChunkIdsFrom(_, _)
ChunkIdsFrom(i, off) ==
    \/ i > Len(ChunkNames)
    \/ /\ IdAt(off) = chunk_id(ChunkNames[i])
       /\ ChunkIdsFrom(i + 1, off + 8 + SizeAt(off + 4))

\* the file is framed as parse_file expects: every expected id is in its
\* place and the declared size is the length of the file less 8
WellFramed ==
    /\ IdAt(0) = chunk_id("RIFF")
    /\ SizeAt(4) + 8 = Len(file)
    /\ IdAt(8) = chunk_id("sfbk")
    /\ IdAt(12) = chunk_id("LIST")
    /\ IdAt(20) = chunk_id("INFO")
    /\ IdAt(InfoEnd) = chunk_id("LIST")
    /\ IdAt(SdtaEnd) = chunk_id("LIST")
    /\ IdAt(SdtaEnd + 8) = chunk_id("pdta")
    /\ ChunkIdsFrom(1, SdtaEnd + 12)

FramingError == ~WellFramed

\* C9: with a framing error parse_file does not return: main has no result,
\* process does not run, there is no bank and no report
C9_FramingFatal ==
    FramingError =>
        /\ pc \in {"parse_file", "parse_info", "parse_sdta", "parse_pdta",
                   "parse_chunks", "exit", "raised"}
        /\ ~(pc = "parse_chunks" /\ nchunk = Len(ChunkNames))
        /\ banks = <<>>
        /\ reports = {}

\* the exit at the id of the sixth record array, after five were decoded
\* and the metadata was read
C9_Witness ==
    /\ FramingError
    /\ pc = "exit"
    /\ nchunk = 5
    /\ ~info.none
    /\ Len(info.list) = 5

====
